---- MODULE Spec2Model ----
(***************************************************************************)
(* Model of the PrairieLearn course archiver (src/scraper.py and           *)
(* src/utilities/fix_html_paths.py).                                       *)
(*                                                                         *)
(* Strings whose characters matter (badge texts, names, titles, HTML       *)
(* content) are sequences: of one-character strings for names, of lexical  *)
(* tokens for HTML content.                                                *)
(***************************************************************************)
EXTENDS Integers, Sequences, FiniteSets, TLC

(***************************************************************************)
(* Bounds of the model.                                                    *)
(***************************************************************************)
\* rows of the listing page, where the listing is what is explored
MaxRows == 3
\* rows of the listing page, where the crawl is what is explored
MaxCrawlRows == 3
\* events of one run in which the environment departs from a fresh output
\* tree, the usual assessment page and a fault-free site and local system
MaxEvents == 1
\* fragments of an HTML content handed to the path rewriter
MaxPieces == 4
\* applications of the path rewriter to one file
MaxApply == 2
\* fetch outcomes scripted for one call of download_with_retry
MaxAttempts == 3
\* comma-separated tokens of the operator's selection
MaxSelTokens == 2

(***************************************************************************)
(* Program constants.                                                      *)
(***************************************************************************)
MAX_RETRIES == 3
MinHtmlSize == 1000
HeadChars == 500
MinWeek == 1
MaxWeek == 14
MaxNameLength == 80

None == "None"

(***************************************************************************)
(* Characters and strings as sequences of characters.                      *)
(***************************************************************************)
Ord(c) ==
  CASE c = " " -> 32 [] c = "1" -> 49 [] c = "2" -> 50 [] c = "?" -> 63
    [] c = "A" -> 65 [] c = "B" -> 66 [] c = "G" -> 71 [] c = "H" -> 72
    [] c = "Q" -> 81 [] c = "W" -> 87 [] c = "_" -> 95 [] c = "h" -> 104
    [] c = "w" -> 119

IsUpper(c) == Ord(c) >= 65 /\ Ord(c) <= 90

\* s < t in Python's string order
RECURSIVE StrLess(_, _)
StrLess(s, t) ==
  IF t = <<>> THEN FALSE
  ELSE IF s = <<>> THEN TRUE
  ELSE IF Ord(Head(s)) # Ord(Head(t)) THEN Ord(Head(s)) < Ord(Head(t))
  ELSE StrLess(Tail(s), Tail(t))

\* sorted(S) for a set of strings
RECURSIVE Sorted(_)
Sorted(S) ==
  IF S = {} THEN <<>>
  ELSE LET m == CHOOSE x \in S : \A y \in S \ {x} : StrLess(x, y)
       IN <<m>> \o Sorted(S \ {m})

RECURSIVE LStrip(_)
LStrip(s) == IF s # <<>> /\ Head(s) = " " THEN LStrip(Tail(s)) ELSE s

RECURSIVE RStrip(_)
RStrip(s) ==
  IF s # <<>> /\ s[Len(s)] = " " THEN RStrip(SubSeq(s, 1, Len(s) - 1)) ELSE s

IllegalChars == {"\\", "/", "*", "?", ":", "\"", "<", ">", "|"}

\* clean_filename: drop the illegal characters, strip, spaces to underscores,
\* and cut an over-long name to max_length-9 characters plus "_" and a hash.
clean_filename(text) ==
  LET kept == SelectSeq(text, LAMBDA c : c \notin IllegalChars)
      stripped == RStrip(LStrip(kept))
      clean == [i \in 1..Len(stripped) |->
                  IF stripped[i] = " " THEN "_" ELSE stripped[i]]
  IN IF Len(clean) > MaxNameLength
       THEN SubSeq(clean, 1, MaxNameLength - 9) \o <<"_">> \o <<<<"md5", text>>>>
       ELSE clean

\* re.match(r'^([A-Z]+)', badge_text): the leading run of upper-case letters
RECURSIVE UpperPrefix(_)
UpperPrefix(s) ==
  IF s # <<>> /\ IsUpper(Head(s)) THEN <<Head(s)>> \o UpperPrefix(Tail(s))
  ELSE <<>>

(***************************************************************************)
(* The listing page: the rows the browser renders.                         *)
(***************************************************************************)
Base == "https://us.prairielearn.com"

\* Python's None where a week number is expected: the cursor before any valid
\* heading, and the number of a heading that Week\s+(\d+) does not match
NoWeek == -1
\* week numbers a heading may carry
HeaderWeeks == {NoWeek, 0, 1, 14, 15}

HeaderRow(w) ==
  [kind |-> "header", week |-> w, badge |-> <<>>, href |-> None,
   abs |-> FALSE, users |-> FALSE, title |-> <<>>]

ItemRow(b, h, a, g) ==
  [kind |-> "item", week |-> NoWeek, badge |-> b, href |-> h,
   abs |-> a, users |-> g, title |-> <<"Q">>]

HW1 == <<"H", "W", "1">>
HW2 == <<"H", "W", "2">>
GA1 == <<"G", "A", "1">>

\* the rows of a listing; each assessment has its own href
ListingRows ==
  {HeaderRow(w) : w \in HeaderWeeks}
  \cup {ItemRow(HW1, "/assessment/1", FALSE, FALSE),
        ItemRow(HW2, "/assessment_instance/2", FALSE, TRUE),
        ItemRow(GA1, "https://us.prairielearn.com/assessment/3", TRUE, FALSE),
        ItemRow(GA1, "/assessment/5", FALSE, TRUE),
        ItemRow(<<"h", "w", "1">>, "/assessment/4", FALSE, FALSE),
        ItemRow(HW1, "/gradebook", FALSE, FALSE),
        ItemRow(<<>>, None, FALSE, FALSE)}

RECURSIVE SeqsUpTo(_, _)
SeqsUpTo(S, n) ==
  IF n = 0 THEN {<<>>}
  ELSE LET shorter == SeqsUpTo(S, n - 1)
       IN shorter \cup {Append(s, x) : s \in {t \in shorter : Len(t) = n - 1}, x \in S}

Listings == SeqsUpTo(ListingRows, MaxRows)

\* the rows of the listings under which the crawl is explored
CrawlRows ==
  {HeaderRow(1), ItemRow(HW1, "/assessment/1", FALSE, FALSE),
   ItemRow(GA1, "https://us.prairielearn.com/assessment/3", TRUE, FALSE)}

CrawlListings == SeqsUpTo(CrawlRows, MaxCrawlRows)

VARIABLES
  pc,                    \* position of main() in its control flow
  stdin,                 \* what the operator types at the selection prompt
  budget, events,        \* environment events: allowed, and so far
  all_rows, row_i,       \* the listing's rows and the scan's position
  current_week_num, module_types, temp_assessments,
  type_list, user_input, selected_types,
  assessments_to_process, assess_idx,
  questions_to_scrape, q_idx,
  completed_questions,
  disk,                  \* question folder -> its content, as far as known
  current_url,           \* where the browser is
  nav_log,               \* the URLs given to driver.get during the crawl
  log,                   \* the kinds of messages logged so far
  quit_count,            \* calls of driver.quit()
  last,                  \* what the latest step did
  content, writes,       \* the file the path rewriter utility works on
  fetch                  \* one call of download_with_retry

vars ==
  <<pc, stdin, budget, events, all_rows, row_i, current_week_num,
    module_types, temp_assessments, type_list, user_input, selected_types,
    assessments_to_process, assess_idx, questions_to_scrape, q_idx,
    completed_questions, disk, current_url, nav_log, log, quit_count, last,
    content, writes, fetch>>

\* what no step of main() changes
inputs == <<stdin, budget, all_rows, content, writes, fetch>>

(***************************************************************************)
(* Module discovery (main, phase 1): one listing row.                      *)
(***************************************************************************)
Digit(d) ==
  CASE d = 0 -> "0" [] d = 1 -> "1" [] d = 2 -> "2" [] d = 3 -> "3"
    [] d = 4 -> "4" [] d = 5 -> "5" [] d = 6 -> "6" [] d = 7 -> "7"
    [] d = 8 -> "8" [] d = 9 -> "9"

\* str(n) for n >= 0
RECURSIVE Str(_)
Str(n) == IF n < 10 THEN <<Digit(n)>> ELSE Str(n \div 10) \o <<Digit(n % 10)>>

WeekLabel(n) == clean_filename(<<"W", "e", "e", "k", "_">> \o Str(n))

\* "/assessment/" in href or "/assessment_instance/" in href
IsAssessmentHref(h) ==
  h \in {"/assessment/1", "/assessment_instance/2",
         "https://us.prairielearn.com/assessment/3", "/assessment/4",
         "/assessment/5"}

\* href if href.startswith("http") else "https://us.prairielearn.com" + href
FullUrl(row) == IF row.abs THEN <<row.href>> ELSE <<Base, row.href>>

\* the cursor after a week-section header, were line 338 missing
HeaderCursorKept(cur, w) ==
  IF w # NoWeek /\ MinWeek <= w /\ w <= MaxWeek THEN w ELSE cur

\* the cursor after a week-section header
HeaderCursor(cur, w) ==
  IF w # NoWeek
    THEN IF MinWeek <= w /\ w <= MaxWeek THEN w ELSE NoWeek
    ELSE cur

\* does the row qualify as an assessment of the active week
Qualifies(cur, row) ==
  /\ cur # NoWeek
  /\ row.badge # <<>>
  /\ row.href # None
  /\ IsAssessmentHref(row.href)
  /\ UpperPrefix(row.badge) # <<>>

\* module_types after a qualifying row
CountType(mt, row) ==
  LET t == UpperPrefix(row.badge)
      entry == IF t \in DOMAIN mt THEN mt[t]
               ELSE [count |-> 0, is_group |-> row.users, sample_title |-> row.title]
  IN [x \in DOMAIN mt \cup {t} |->
        IF x = t THEN [entry EXCEPT !.count = @ + 1] ELSE mt[x]]

AssessmentRecord(cur, row) ==
  [week |-> WeekLabel(cur), name |-> clean_filename(row.badge),
   title |-> row.title, url |-> FullUrl(row),
   type |-> UpperPrefix(row.badge), is_group |-> row.users]

(***************************************************************************)
(* Selection (main, phase 2).                                              *)
(***************************************************************************)
SelTokens == {"1", "2", "99", "0", "abc", "all", "ALL"}

Inputs == SeqsUpTo(SelTokens, MaxSelTokens) \ {<<>>}

\* int(x.strip()) raises ValueError
Unparsable(tok) == tok \notin {"1", "2", "99", "0"}

\* int(x.strip())
IntOf(tok) ==
  CASE tok = "1" -> 1 [] tok = "2" -> 2 [] tok = "99" -> 99 [] tok = "0" -> 0

\* user_input.strip().lower(), token by token
Lower(tok) == IF tok = "ALL" THEN "all" ELSE tok

Normalize(inp) == [i \in 1..Len(inp) |-> Lower(inp[i])]

IsAll(inp) == inp = <<"all">>

available_types(mt) == {t \in DOMAIN mt : ~mt[t].is_group}

\* the parse of a selection other than 'all': ValueError, or the selected set
ParseSelection(inp, tl) ==
  IF \E i \in 1..Len(inp) : Unparsable(inp[i])
    THEN [error |-> TRUE, sel |-> {}]
    ELSE [error |-> FALSE,
          sel |-> {tl[IntOf(inp[i])] :
                     i \in {j \in 1..Len(inp) :
                              1 <= IntOf(inp[j]) /\ IntOf(inp[j]) <= Len(tl)}}]

\* the assessments kept for the crawl, in discovery order
FilterAssessments(temp, sel) ==
  SelectSeq(temp, LAMBDA a : a.type \in sel /\ ~a.is_group)

(***************************************************************************)
(* main(): login, discovery and selection.                                 *)
(***************************************************************************)
\* the for loop over assessments_to_process at index idx: its body, or the
\* code after the loop
AssessLoop(todo, idx) == IF idx <= Len(todo) THEN "assess" ELSE "cssfix"

\* `continue` or the end of the body of the loop over questions_to_scrape
NextQuestion(todo, aidx, questions, qidx) ==
  IF qidx + 1 <= Len(questions)
    THEN [pc |-> "question", assess_idx |-> aidx, q_idx |-> qidx + 1]
    ELSE [pc |-> AssessLoop(todo, aidx + 1), assess_idx |-> aidx + 1, q_idx |-> 1]

\* an exception of one question that is not caught in the loop
QuestionErrorEscapes(todo, aidx, questions, qidx) ==
  [pc |-> "finally", assess_idx |-> aidx, q_idx |-> qidx]

\* lines 519-521: the handler of an exception in one question
QuestionError(todo, aidx, questions, qidx) ==
  NextQuestion(todo, aidx, questions, qidx)

\* leaving main() without its finally clause
LeaveWithoutFinally == "ended"

\* a `return` inside the try block of main(), or an exception caught by its
\* outermost handler: the finally clause is next
LeaveTry == "finally"

NoOp == [op |-> "none"]

\* no call of download_with_retry on its own
NoFetch == [script |-> <<>>, max_retries |-> 0, called |-> FALSE]

\* lines 267-276, for a listing, an operator and an environment
MainInit(listings, answers, allowed) ==
  /\ pc = "login"
  /\ all_rows \in listings
  /\ stdin \in answers
  /\ budget = allowed
  /\ events = 0
  /\ row_i = 1
  /\ current_week_num = NoWeek
  /\ module_types = <<>>
  /\ temp_assessments = <<>>
  /\ type_list = <<>>
  /\ user_input = <<>>
  /\ selected_types = {}
  /\ assessments_to_process = <<>>
  /\ assess_idx = 1
  /\ questions_to_scrape = <<>>
  /\ q_idx = 1
  /\ completed_questions = {}
  /\ disk = <<>>
  /\ current_url = None
  /\ nav_log = <<>>
  /\ log = {}
  /\ quit_count = 0
  /\ last = NoOp
  /\ content = <<>>
  /\ writes = 0
  /\ fetch = NoFetch

\* lines 279-317: anything raised here escapes to the outermost handler
Login ==
  /\ pc = "login"
  /\ \E raised \in BOOLEAN :
       /\ raised => events < budget
       /\ events' = IF raised THEN events + 1 ELSE events
       /\ pc' = IF raised THEN LeaveTry ELSE "scan"
       /\ log' = IF raised THEN log \cup {"FATAL ERROR"} ELSE log
       /\ last' = [op |-> "login", fatal |-> raised]
  /\ current_url' = "listing"
  /\ UNCHANGED <<inputs, row_i, current_week_num, module_types,
                 temp_assessments, type_list, user_input, selected_types,
                 assessments_to_process, assess_idx, questions_to_scrape,
                 q_idx, completed_questions, disk, nav_log, quit_count>>

\* lines 326-379: one iteration of the loop over all_rows
ScanRow ==
  /\ pc = "scan"
  /\ row_i <= Len(all_rows)
  /\ LET row == all_rows[row_i]
     IN IF row.kind = "header"
          THEN /\ current_week_num' = HeaderCursor(current_week_num, row.week)
               /\ UNCHANGED <<module_types, temp_assessments>>
          ELSE /\ UNCHANGED current_week_num
               /\ IF Qualifies(current_week_num, row)
                    THEN /\ module_types' = CountType(module_types, row)
                         /\ temp_assessments' =
                              Append(temp_assessments,
                                     AssessmentRecord(current_week_num, row))
                    ELSE UNCHANGED <<module_types, temp_assessments>>
  /\ row_i' = row_i + 1
  /\ last' = [op |-> "scan", row |-> row_i,
              added |-> Len(temp_assessments') > Len(temp_assessments)]
  /\ UNCHANGED <<inputs, pc, events, type_list, user_input, selected_types,
                 assessments_to_process, assess_idx, questions_to_scrape,
                 q_idx, completed_questions, disk, current_url, nav_log, log,
                 quit_count>>

\* the outcome of lines 382-427 for an operator input
SelectionOutcome(mt, temp, inp) ==
  LET tl == Sorted(available_types(mt))
      norm == Normalize(inp)
      parsed == IF IsAll(norm)
                  THEN [error |-> FALSE, sel |-> {tl[i] : i \in 1..Len(tl)}]
                  ELSE ParseSelection(norm, tl)
      sel == parsed.sel
  IN IF parsed.error
       THEN [result |-> "invalid", selected |-> {}, todo |-> <<>>]
     ELSE IF sel = {}
       THEN [result |-> "empty", selected |-> {}, todo |-> <<>>]
     ELSE [result |-> "ok", selected |-> sel, todo |-> FilterAssessments(temp, sel)]

\* lines 382-429: the non-group types, the operator's selection, the filter
SelectTypes ==
  /\ pc = "scan"
  /\ row_i > Len(all_rows)
  /\ IF available_types(module_types) = {}
       THEN /\ pc' = LeaveTry
            /\ log' = log \cup {"No downloadable module types found!"}
            /\ last' = [op |-> "select", result |-> "no_types"]
            /\ UNCHANGED <<type_list, user_input, selected_types,
                           assessments_to_process>>
       ELSE LET out == SelectionOutcome(module_types, temp_assessments, stdin)
              IN /\ type_list' = Sorted(available_types(module_types))
                 /\ user_input' = Normalize(stdin)
                 /\ selected_types' = out.selected
                 /\ assessments_to_process' = out.todo
                 /\ pc' = IF out.result = "ok"
                            THEN AssessLoop(out.todo, 1) ELSE LeaveTry
                 /\ log' = log \cup
                      CASE out.result = "invalid" -> {"Invalid selection!"}
                        [] out.result = "empty" -> {"No types selected!"}
                        [] OTHER -> {"Selected types"}
                 /\ last' = [op |-> "select", result |-> out.result]
  /\ UNCHANGED <<inputs, events, row_i, current_week_num, module_types,
                 temp_assessments, assess_idx, questions_to_scrape, q_idx,
                 completed_questions, disk, current_url, nav_log, quit_count>>

(***************************************************************************)
(* The site: assessment pages and question pages.                          *)
(***************************************************************************)
Q1 == <<"Q", "1">>
Q2 == <<"Q", "2">>
CatA == <<"A">>
QuestionWord == <<"Q", "u", "e", "s", "t", "i", "o", "n">>
ValueWord == <<"V", "a", "l", "u", "e">>
General == <<"G", "e", "n", "e", "r", "a", "l">>

ThRow(text) == [kind |-> "th", text |-> text, href |-> None]
LinkRow(title, href) == [kind |-> "a", text |-> title, href |-> href]

\* "/instance_question/" in href
IsQuestionHref(h) ==
  h \in {"/instance_question/1", "/instance_question/2", "/instance_question/3"}

\* the page an assessment URL usually shows
UsualPage ==
  <<LinkRow(Q1, "/instance_question/1"), LinkRow(Q2, "/instance_question/2")>>

\* the pages an assessment URL may show
AssessPages ==
  { <<>>, UsualPage,
    <<LinkRow(Q1, "/instance_question/1")>>,
    <<ThRow(QuestionWord), LinkRow(Q2, "/instance_question/2")>>,
    <<ThRow(CatA), LinkRow(Q1, "/gradebook"), LinkRow(Q1, "/instance_question/3")>>,
    <<LinkRow(Q1, "/instance_question/1"), ThRow(CatA),
      LinkRow(Q1, "/instance_question/3")>> }

\* sub in s
Contains(s, sub) ==
  \E i \in 0..(Len(s) - Len(sub)) : SubSeq(s, i + 1, i + Len(sub)) = sub

\* lines 448-468: the questions of an assessment page
RECURSIVE ParseQuestions(_, _)
ParseQuestions(rows, category) ==
  IF rows = <<>> THEN <<>>
  ELSE LET row == Head(rows)
       IN IF row.kind = "th"
            THEN ParseQuestions(Tail(rows),
                   IF /\ ~Contains(row.text, QuestionWord)
                      /\ ~Contains(row.text, ValueWord)
                      /\ row.text # <<>>
                     THEN clean_filename(row.text) ELSE category)
          ELSE IF row.href # None /\ IsQuestionHref(row.href)
            THEN <<[category |-> category, title |-> clean_filename(row.text),
                    url |-> <<Base, row.href>>]>>
                 \o ParseQuestions(Tail(rows), category)
          ELSE ParseQuestions(Tail(rows), category)

\* the images of the page a question URL shows: each a file name and whether
\* its src is a PrairieLearn clientFiles URL
SiteImages(url) ==
  CASE url = <<Base, "/instance_question/1">> -> <<[name |-> "a.png", pl |-> TRUE]>>
    [] url = <<Base, "/instance_question/2">> -> <<>>
    [] url = <<Base, "/instance_question/3">> -> <<[name |-> "x.png", pl |-> FALSE]>>

(***************************************************************************)
(* HTML content as tokens, and the path rewriter.                          *)
(***************************************************************************)
SRC == "src="
HREF == "href="
QUOTE == "\""
ASSETS == "/assets/"
PL == "/pl/"
TEXT == "x"

\* the first match of (src|href)="(prefix[^"]+)" at position i of c: the
\* position of its closing quote, or 0
MatchEnd(c, i, prefix) ==
  IF /\ i + 4 <= Len(c)
     /\ c[i] \in {SRC, HREF}
     /\ c[i + 1] = QUOTE
     /\ c[i + 2] = prefix
     /\ c[i + 3] # QUOTE
    THEN LET closing == {j \in (i + 4)..Len(c) : c[j] = QUOTE}
         IN IF closing = {} THEN 0
            ELSE CHOOSE j \in closing : \A k \in closing : j <= k
    ELSE 0

\* re.sub(r'(src|href)="(prefix[^"]+)"', r'\1="' + base + r'\2"', c), from i on
RECURSIVE SubFrom(_, _, _)
SubFrom(c, i, prefix) ==
  IF i > Len(c) THEN <<>>
  ELSE LET e == MatchEnd(c, i, prefix)
       IN IF e = 0 THEN <<c[i]>> \o SubFrom(c, i + 1, prefix)
          ELSE <<c[i], QUOTE, Base>> \o SubSeq(c, i + 2, e) \o SubFrom(c, e + 1, prefix)

\* the two substitutions of fix_css_paths and fix_html_file
FixContent(c) == SubFrom(SubFrom(c, 1, ASSETS), 1, PL)

(***************************************************************************)
(* The output tree: question folders and their files.                      *)
(***************************************************************************)
NoFile == [exists |-> FALSE, size |-> 0, marker |-> "none", at |-> 0,
           local |-> {}, body |-> <<>>]

HtmlFile(size, marker, at) ==
  [exists |-> TRUE, size |-> size, marker |-> marker, at |-> at,
   local |-> {}, body |-> <<>>]

\* the index.html files a folder may hold before the run
InitialHtml ==
  {NoFile}
  \cup {HtmlFile(sz, "<html", 0) :
          sz \in {MinHtmlSize - 1, MinHtmlSize, MinHtmlSize + 1}}
  \cup {HtmlFile(MinHtmlSize, "none", 0),
        HtmlFile(MinHtmlSize, "<!DOCTYPE html>", 0),
        HtmlFile(MinHtmlSize + 1, "<html", HeadChars - 4)}

NoImages == [exists |-> FALSE, files |-> {}]

InitialImages == {NoImages, [exists |-> TRUE, files |-> {}],
                  [exists |-> TRUE, files |-> {"a.png"}]}

\* a question folder of a fresh output tree
FreshFolder == [html |-> NoFile, images |-> NoImages, shot |-> FALSE]

\* the content a question folder may hold before the run
InitialFolders ==
  {[html |-> h, images |-> i, shot |-> sh] :
     h \in InitialHtml, i \in InitialImages, sh \in BOOLEAN}

\* content.lower()
LowerMarker(m) == IF m = "<!DOCTYPE html>" THEN "<!doctype html>" ELSE m

MarkerLen(m) == IF LowerMarker(m) = "<!doctype html>" THEN 15 ELSE 5

\* lines 42-59 without the size check of line 49
validate_html_file_any_size(f) ==
  IF ~f.exists THEN FALSE
  ELSE IF ~(/\ LowerMarker(f.marker) \in {"<!doctype html>", "<html"}
            /\ f.at + MarkerLen(f.marker) <= HeadChars)
    THEN FALSE
  ELSE TRUE

\* lines 42-59
validate_html_file(f) ==
  IF ~f.exists THEN FALSE
  ELSE IF f.size < MinHtmlSize THEN FALSE
  ELSE IF ~(/\ LowerMarker(f.marker) \in {"<!doctype html>", "<html"}
            /\ f.at + MarkerLen(f.marker) <= HeadChars)
    THEN FALSE
  ELSE TRUE

\* line 493
needs_images(st) == ~st.images.exists \/ Cardinality(st.images.files) = 0

\* line 494 with the `not` left out
needs_screenshot_inverted(st) == st.shot

\* line 494
needs_screenshot(st) == ~st.shot

\* lines 491-499: the folder's content lets the driver skip the question
SkipOnDisk(st) ==
  validate_html_file(st.html) /\ ~needs_images(st) /\ ~needs_screenshot(st)

\* line 473
question_id(assess, q) == assess.name \o <<"_">> \o q.title

\* lines 480-486
question_folder(assess, q) == <<assess.week, assess.name, q.category, q.title>>

(***************************************************************************)
(* Asset downloader.                                                       *)
(***************************************************************************)
FetchResults == {"200", "401", "500", "timeout", "error"}

RECURSIVE Pow2(_)
Pow2(n) == IF n = 0 THEN 1 ELSE 2 * Pow2(n - 1)

\* lines 65-82, from attempt `attempt` on; script[k] is what the k-th
\* requests.get does; sleeps[k] is the time.sleep after the k-th attempt
\* made, 0 if there is none
RECURSIVE download_with_retry(_, _, _)
download_with_retry(script, attempt, max_retries) ==
  IF attempt >= max_retries
    THEN [content |-> FALSE, attempts |-> 0, sleeps |-> <<>>, expired |-> FALSE]
  ELSE LET r == script[attempt + 1]
           rest == download_with_retry(script, attempt + 1, max_retries)
       IN IF r = "200"
            THEN [content |-> TRUE, attempts |-> 1, sleeps |-> <<0>>, expired |-> FALSE]
          ELSE IF r = "401"
            THEN [content |-> FALSE, attempts |-> 1, sleeps |-> <<0>>, expired |-> TRUE]
          ELSE IF r = "500"
            THEN [rest EXCEPT !.attempts = @ + 1, !.sleeps = <<0>> \o @]
          ELSE [rest EXCEPT !.attempts = @ + 1,
                            !.sleeps = <<Pow2(attempt)>> \o @]

AllOk == [k \in 1..MAX_RETRIES |-> "200"]

\* what the fetches of one question's images may do
FetchScripts ==
  {AllOk,
   [k \in 1..MAX_RETRIES |-> "401"],
   [k \in 1..MAX_RETRIES |-> IF k = 1 THEN "timeout" ELSE "200"],
   [k \in 1..MAX_RETRIES |-> IF k = 1 THEN "500" ELSE "error"]}

\* lines 84-128: the images folder, the names rewritten to local paths and
\* whether a fetch reported the session expired
RECURSIVE download_images(_, _, _, _)
download_images(imgs, images, local, script) ==
  IF imgs = <<>> THEN [images |-> images, local |-> local, expired |-> FALSE]
  ELSE LET img == Head(imgs)
           folder == [images EXCEPT !.exists = TRUE]
       IN IF ~img.pl THEN download_images(Tail(imgs), folder, local, script)
          ELSE IF img.name \in folder.files
            THEN download_images(Tail(imgs), folder, local \cup {img.name}, script)
          ELSE LET got == download_with_retry(script, 0, MAX_RETRIES)
                   rest == download_images(Tail(imgs),
                             IF got.content
                               THEN [folder EXCEPT !.files = @ \cup {img.name}]
                               ELSE folder,
                             IF got.content THEN local \cup {img.name} ELSE local,
                             script)
               IN [rest EXCEPT !.expired = @ \/ got.expired]

(***************************************************************************)
(* Page capturer.                                                          *)
(***************************************************************************)
ScreenshotOutcomes == {"ok", "fallback", "fallback_false", "fail"}

\* lines 130-164: is render.png written, and the value returned
take_full_page_screenshot(outcome) ==
  [written |-> outcome \in {"ok", "fallback"}, returned |-> outcome # "fail"]

\* lines 181-190
check_session_valid(url) == url # "login"

\* the page source of a question page, before the images are made local
PageHtml(url) ==
  IF url = <<Base, "/instance_question/3">>
    THEN [HtmlFile(MinHtmlSize - 1, "<html", 0) EXCEPT
            !.body = <<HREF, QUOTE, PL, TEXT, QUOTE>>]
    ELSE [HtmlFile(MinHtmlSize + 1, "<!DOCTYPE html>", 0) EXCEPT
            !.body = <<SRC, QUOTE, ASSETS, TEXT, QUOTE>>]

\* the page the site shows instead once the session is gone
LoginHtml == HtmlFile(MinHtmlSize - 1, "<html", 0)

(***************************************************************************)
(* main(): the crawl.                                                      *)
(***************************************************************************)
Cost(b) == IF b THEN 1 ELSE 0

\* lines 431-470: the head of one iteration of the loop over assessments
LoadAssessment ==
  /\ pc = "assess"
  /\ assess_idx <= Len(assessments_to_process)
  /\ LET assess == assessments_to_process[assess_idx]
     IN IF ~check_session_valid(current_url)
          THEN /\ log' = log \cup {"Session expired", "Session lost"}
               /\ pc' = "cssfix"
               /\ last' = [op |-> "assess", how |-> "break"]
               /\ UNCHANGED <<assess_idx, questions_to_scrape, q_idx,
                              current_url, nav_log, events>>
          ELSE \E outcome \in {"ok", "login", "raise", "fatal"}, page \in AssessPages :
                 LET questions == IF outcome = "ok"
                                    THEN ParseQuestions(page, General) ELSE <<>>
                     cost == Cost(outcome # "ok" \/ page # UsualPage)
                 IN /\ outcome # "ok" => page = <<>>
                    /\ events + cost <= budget
                    /\ events' = events + cost
                    /\ nav_log' = Append(nav_log, assess.url)
                    /\ current_url' = CASE outcome = "raise" -> current_url
                                        [] outcome = "login" -> "login"
                                        [] OTHER -> assess.url
                    /\ questions_to_scrape' =
                         IF outcome \in {"raise", "fatal"}
                           THEN questions_to_scrape ELSE questions
                    /\ IF outcome = "fatal"
                         THEN /\ pc' = LeaveTry
                              /\ UNCHANGED <<assess_idx, q_idx>>
                         ELSE IF questions = <<>>
                           THEN /\ pc' = AssessLoop(assessments_to_process,
                                                    assess_idx + 1)
                                /\ assess_idx' = assess_idx + 1
                                /\ UNCHANGED q_idx
                         ELSE /\ pc' = "question"
                              /\ q_idx' = 1
                              /\ UNCHANGED assess_idx
                    /\ log' = log \cup
                         CASE outcome = "raise" -> {"Failed to load assessment"}
                           [] outcome = "fatal" -> {"FATAL ERROR"}
                           [] OTHER -> {}
                    /\ last' = [op |-> "assess", how |-> outcome]
  /\ UNCHANGED <<inputs, row_i, current_week_num, module_types,
                 temp_assessments, type_list, user_input, selected_types,
                 assessments_to_process, completed_questions, disk,
                 quit_count>>

\* what the site and the local system do while one question is fetched
FaultFree == [nav |-> "ok", script |-> AllOk, write |-> "ok", shot |-> "ok"]

FetchOutcomes ==
  [nav : {"ok", "login", "raise"}, script : FetchScripts,
   write : {"ok", "raise"}, shot : ScreenshotOutcomes]

\* lines 501-517 on a folder holding `pre`: the folder afterwards, whether an
\* exception left the try block, and what the step did to the browser
FetchQuestion(q, pre, env) ==
  LET imgs == IF env.nav = "login" THEN <<>> ELSE SiteImages(q.url)
      source == IF env.nav = "login" THEN LoginHtml ELSE PageHtml(q.url)
      dl == download_images(imgs, pre.images, {}, env.script)
      shot == take_full_page_screenshot(env.shot)
  IN IF env.nav = "raise"
       THEN [post |-> pre, raised |-> TRUE, expired |-> FALSE]
     ELSE IF env.write = "raise"
       THEN [post |-> [pre EXCEPT !.images = dl.images],
             raised |-> TRUE, expired |-> dl.expired]
     ELSE [post |-> [html |-> [source EXCEPT !.local = dl.local],
                     images |-> dl.images,
                     shot |-> pre.shot \/ shot.written],
           raised |-> FALSE, expired |-> dl.expired]

\* the outcomes that differ in what the code gets to see
Relevant(q, pre, env) ==
  /\ env.nav = "raise" => env.write = "ok"
  /\ (env.nav = "raise" \/ env.write = "raise") => env.shot = "ok"
  /\ (\/ env.nav # "ok"
      \/ \A i \in 1..Len(SiteImages(q.url)) :
           \/ ~SiteImages(q.url)[i].pl
           \/ SiteImages(q.url)[i].name \in pre.images.files)
       => env.script = AllOk

\* the folder is looked at for the first time and is not a fresh one
Found(known, folder, pre) ==
  Cost(folder \notin DOMAIN known /\ pre # FreshFolder)

Faults(env) ==
  Cost(env.nav # "ok") + Cost(env.script # AllOk) + Cost(env.write # "ok")
    + Cost(env.shot # "ok")

\* lines 472-521: one iteration of the loop over the questions
ProcessQuestion ==
  /\ pc = "question"
  /\ q_idx <= Len(questions_to_scrape)
  /\ LET assess == assessments_to_process[assess_idx]
         q == questions_to_scrape[q_idx]
         key == question_id(assess, q)
         folder == question_folder(assess, q)
         next == NextQuestion(assessments_to_process, assess_idx,
                              questions_to_scrape, q_idx)
         failed == QuestionError(assessments_to_process, assess_idx,
                                 questions_to_scrape, q_idx)
         goes == IF last'.how = "exception" THEN failed ELSE next
     IN /\ IF key \in completed_questions
             THEN /\ last' = [op |-> "question", how |-> "skip_completed",
                              key |-> key, folder |-> folder, url |-> q.url]
                  /\ UNCHANGED <<completed_questions, disk, current_url,
                                 nav_log, log, events>>
             ELSE \E pre \in (IF folder \in DOMAIN disk
                                THEN {disk[folder]}
                                ELSE IF events < budget THEN InitialFolders
                                ELSE {FreshFolder}) :
                    IF SkipOnDisk(pre)
                      THEN /\ completed_questions' = completed_questions \cup {key}
                           /\ events' = events + Found(disk, folder, pre)
                           /\ disk' = [f \in DOMAIN disk \cup {folder} |->
                                         IF f = folder THEN pre ELSE disk[f]]
                           /\ last' = [op |-> "question", how |-> "skip_disk",
                                       key |-> key, folder |-> folder,
                                       url |-> q.url, pre |-> pre]
                           /\ UNCHANGED <<current_url, nav_log, log>>
                      ELSE \E env \in (IF events + Found(disk, folder, pre) < budget
                                         THEN FetchOutcomes ELSE {FaultFree}) :
                             LET got == FetchQuestion(q, pre, env)
                                 cost == Found(disk, folder, pre) + Faults(env)
                             IN /\ events + cost <= budget
                                /\ Relevant(q, pre, env)
                                /\ events' = events + cost
                                /\ nav_log' = Append(nav_log, q.url)
                                /\ current_url' =
                                     CASE env.nav = "raise" -> current_url
                                       [] env.nav = "login" -> "login"
                                       [] OTHER -> q.url
                                /\ log' = log
                                     \cup (IF got.expired
                                            THEN {"Session expired"} ELSE {})
                                     \cup (IF got.raised
                                            THEN {"Error processing"} ELSE {})
                                /\ disk' = [f \in DOMAIN disk \cup {folder} |->
                                              IF f = folder THEN got.post
                                              ELSE disk[f]]
                                /\ completed_questions' =
                                     IF got.raised THEN completed_questions
                                     ELSE completed_questions \cup {key}
                                /\ last' = [op |-> "question",
                                            how |-> IF got.raised THEN "exception"
                                                    ELSE "fetched",
                                            key |-> key, folder |-> folder,
                                            url |-> q.url, pre |-> pre,
                                            env |-> env]
        /\ pc' = goes.pc
        /\ assess_idx' = goes.assess_idx
        /\ q_idx' = goes.q_idx
  /\ UNCHANGED <<inputs, row_i, current_week_num, module_types,
                 temp_assessments, type_list, user_input, selected_types,
                 assessments_to_process, questions_to_scrape, quit_count>>

BaseLen == 27

\* lines 233-263: the body of fix_css_paths' loop, for one file
FixFile(f) ==
  LET fixed == FixContent(f.body)
  IN IF f.exists /\ fixed # f.body
       THEN [f EXCEPT !.body = fixed,
                      !.size = @ + BaseLen * (Len(fixed) - Len(f.body))]
       ELSE f

\* lines 523-528: the code after the loop over the assessments
CssFix ==
  /\ pc = "cssfix"
  /\ disk' = [f \in DOMAIN disk |-> [disk[f] EXCEPT !.html = FixFile(@)]]
  /\ log' = log \cup {"SCRAPING COMPLETE", "FIXING CSS/JS PATHS", "ALL DONE!"}
  /\ pc' = LeaveTry
  /\ last' = [op |-> "cssfix"]
  /\ UNCHANGED <<inputs, events, row_i, current_week_num, module_types,
                 temp_assessments, type_list, user_input, selected_types,
                 assessments_to_process, assess_idx, questions_to_scrape,
                 q_idx, completed_questions, current_url, nav_log, quit_count>>

\* lines 532-534: the finally clause
Quit ==
  /\ pc = "finally"
  /\ quit_count' = quit_count + 1
  /\ pc' = "ended"
  /\ log' = log \cup {"Closing browser..."}
  /\ last' = [op |-> "quit"]
  /\ UNCHANGED <<inputs, events, row_i, current_week_num, module_types,
                 temp_assessments, type_list, user_input, selected_types,
                 assessments_to_process, assess_idx, questions_to_scrape,
                 q_idx, completed_questions, disk, current_url, nav_log>>

\* the answers under which the crawl is explored
CrawlAnswers == {<<"all">>, <<"abc">>, <<"99">>}

Init == MainInit(CrawlListings, CrawlAnswers, MaxEvents)

\* the listing explored: every listing, the answer 'all', no events
InitListing == MainInit(Listings, {<<"all">>}, 0)

\* the listings under which the selection is explored: no, one and two
\* non-group types
SelectListings ==
  {<<>>,
   <<HeaderRow(1), ItemRow(HW1, "/assessment/1", FALSE, FALSE)>>,
   <<HeaderRow(1), ItemRow(HW1, "/assessment/1", FALSE, FALSE),
     ItemRow(GA1, "https://us.prairielearn.com/assessment/3", TRUE, FALSE)>>,
   <<HeaderRow(1), ItemRow(HW2, "/assessment_instance/2", FALSE, TRUE),
     ItemRow(GA1, "https://us.prairielearn.com/assessment/3", TRUE, FALSE)>>}

\* the selection explored: every answer, no events
InitSelect == MainInit(SelectListings, Inputs, 0)

Next ==
  \/ Login
  \/ ScanRow
  \/ SelectTypes
  \/ LoadAssessment
  \/ ProcessQuestion
  \/ CssFix
  \/ Quit

Spec == Init /\ [][Next]_vars

SpecListing == InitListing /\ [][Next]_vars

SpecSelect == InitSelect /\ [][Next]_vars

(***************************************************************************)
(* The path rewriter on one file: fix_html_file of the utility and the     *)
(* loop body of fix_css_paths.                                             *)
(***************************************************************************)
\* the fragments a content is made of: the openings of src and href
\* attributes on either prefix, and the single tokens
Pieces ==
  {<<a, QUOTE, p>> : a \in {SRC, HREF}, p \in {ASSETS, PL}}
  \cup {<<t>> : t \in {SRC, QUOTE, ASSETS, PL, TEXT}}

RECURSIVE Flatten(_)
Flatten(ps) == IF ps = <<>> THEN <<>> ELSE Head(ps) \o Flatten(Tail(ps))

Contents == {Flatten(ps) : ps \in SeqsUpTo(Pieces, MaxPieces)}

\* one file with some content, not yet rewritten
InitRewrite ==
  /\ pc = "rewrite"
  /\ content \in Contents
  /\ writes = 0
  /\ fetch = NoFetch
  /\ last = [op |-> "none", n |-> 0, changed |-> FALSE]
  /\ all_rows = <<>>
  /\ stdin = <<>>
  /\ budget = 0
  /\ events = 0
  /\ row_i = 1
  /\ current_week_num = NoWeek
  /\ module_types = <<>>
  /\ temp_assessments = <<>>
  /\ type_list = <<>>
  /\ user_input = <<>>
  /\ selected_types = {}
  /\ assessments_to_process = <<>>
  /\ assess_idx = 1
  /\ questions_to_scrape = <<>>
  /\ q_idx = 1
  /\ completed_questions = {}
  /\ disk = <<>>
  /\ current_url = None
  /\ nav_log = <<>>
  /\ log = {}
  /\ quit_count = 0

\* src/utilities/fix_html_paths.py lines 9-40: the content and the result
fix_html_file(c) ==
  LET fixed == FixContent(c)
  IN [content |-> fixed, returned |-> fixed # c]

Rewrite(op, fixed, changed) ==
  /\ pc = "rewrite"
  /\ last.n < MaxApply
  /\ content' = fixed
  /\ writes' = writes + Cost(changed)
  /\ last' = [op |-> op, n |-> last.n + 1, changed |-> changed]
  /\ UNCHANGED <<pc, stdin, budget, events, all_rows, row_i, current_week_num,
                 module_types, temp_assessments, type_list, user_input,
                 selected_types, assessments_to_process, assess_idx,
                 questions_to_scrape, q_idx, completed_questions, disk,
                 current_url, nav_log, log, quit_count, fetch>>

FixHtmlFile ==
  Rewrite("fix_html_file", fix_html_file(content).content,
          fix_html_file(content).returned)

FixCssPaths ==
  LET f == [HtmlFile(MinHtmlSize, "<html", 0) EXCEPT !.body = content]
  IN Rewrite("fix_css_paths", FixFile(f).body, FixFile(f) # f)

NextRewrite == FixHtmlFile \/ FixCssPaths

SpecRewrite == InitRewrite /\ [][NextRewrite]_vars

(***************************************************************************)
(* Properties of the crawl.                                                *)
(***************************************************************************)
Range(f) == {f[i] : i \in DOMAIN f}

\* the step is an iteration of the loop over the questions that looked at
\* the question's folder, and `last'.pre` is what the folder held
LookedAtFolder ==
  /\ pc = "question"
  /\ last'.op = "question"
  /\ last'.how # "skip_completed"

Navigated == nav_log' # nav_log

\* a valid index.html, a non-empty images/ folder and render.png
HoldsAll(st) ==
  /\ validate_html_file(st.html)
  /\ st.images.exists /\ st.images.files # {}
  /\ st.shot

\* C1: a question whose folder holds a valid index.html, a non-empty images/
\* folder and render.png is not navigated to: the iteration marks it complete
\* and goes on to the next question
C1_ResumeSkip ==
  [][(LookedAtFolder /\ HoldsAll(last'.pre))
       => /\ ~Navigated
          /\ current_url' = current_url
          /\ last'.key \in completed_questions'
          /\ disk'[last'.folder] = last'.pre
          /\ \/ q_idx' = q_idx + 1 /\ assess_idx' = assess_idx
             \/ q_idx = Len(questions_to_scrape) /\ assess_idx' = assess_idx + 1]_vars

C1_Witness ==
  /\ last.op = "question"
  /\ last.how = "skip_disk"
  /\ HoldsAll(last.pre)
  /\ nav_log # <<>>

\* C2: the folder is skipped exactly when index.html is valid, render.png is
\* there, and images/ is non-empty if the question's page has images
C2_CompleteIff ==
  [][LookedAtFolder
       => (~Navigated <=>
             /\ validate_html_file(last'.pre.html)
             /\ last'.pre.shot
             /\ (SiteImages(last'.url) # <<>>
                   => last'.pre.images.exists /\ last'.pre.images.files # {}))]_vars

\* the leading content holds an HTML document marker, in any case of letters
MarkerInHead(f) ==
  \E m \in {"<!doctype html>", "<html"} :
    LowerMarker(f.marker) = m /\ f.at + MarkerLen(m) <= HeadChars

C4_FailureIsolation ==
  /\ [][(pc = "question" /\ last'.op = "question" /\ last'.how = "exception")
          => /\ "Error processing" \in log'
             /\ "FATAL ERROR" \notin log'
             /\ IF q_idx < Len(questions_to_scrape)
                  THEN pc' = "question" /\ q_idx' = q_idx + 1
                       /\ assess_idx' = assess_idx
                  ELSE /\ assess_idx' = assess_idx + 1
                       /\ pc' = IF assess_idx' <= Len(assessments_to_process)
                                  THEN "assess" ELSE "cssfix"]_vars
  /\ []((pc = "ended" /\ "Error processing" \in log /\ "FATAL ERROR" \notin log)
          => "FIXING CSS/JS PATHS" \in log)

C4_Witness ==
  /\ pc = "ended"
  /\ "Error processing" \in log
  /\ "FIXING CSS/JS PATHS" \in log
  /\ Len(nav_log) >= 3

\* C8: once a session loss has been detected (logged), nothing more is
\* navigated to
C8_SessionLossStops ==
  [][("Session expired" \in log) => ~Navigated]_vars

\* C9: every way of leaving the try block of main() is followed by
\* driver.quit(), which is called once, and nothing happens after it
C9_Teardown ==
  /\ quit_count \in {0, 1}
  /\ pc = "ended" <=> quit_count = 1
  /\ pc = "ended" <=> "Closing browser..." \in log
  /\ pc = "finally" => ENABLED Quit
  /\ pc = "ended" => ~ENABLED Next
  /\ log \cap {"FATAL ERROR", "No downloadable module types found!",
               "Invalid selection!", "No types selected!", "ALL DONE!"} # {}
       => pc \in {"finally", "ended"}

C9_Witness ==
  /\ pc = "ended"
  /\ quit_count = 1
  /\ "FATAL ERROR" \in log
  /\ nav_log # <<>>

(***************************************************************************)
(* Selection, group exclusion, week cursor and path rewriter.              *)
(***************************************************************************)
\* every token of a selection is an integer and a 1-based index into tl
AllValid(inp, tl) ==
  \A i \in 1..Len(inp) :
    ~Unparsable(inp[i]) /\ 1 <= IntOf(inp[i]) /\ IntOf(inp[i]) <= Len(tl)

\* the operator's input was read and the selection is over
Selected == pc \notin {"login", "scan"} /\ user_input # <<>>

\* the run reported an error of the selection and crawled nothing
SelectionRejected ==
  /\ log \cap {"Invalid selection!", "No types selected!"} # {}
  /\ assessments_to_process = <<>>
  /\ nav_log = <<>>

\* C5: for every operator expression other than "all", either every token is
\* an integer that is a valid 1-based index into the sorted non-group type
\* list and the selected set is exactly the types at those positions, or the
\* expression is reported as an error and the run ends before any assessment
\* is crawled; no partial selection is applied.
C5_AllOrError ==
  (Selected /\ ~IsAll(user_input)) =>
    \/ /\ AllValid(user_input, type_list)
       /\ selected_types =
            {type_list[IntOf(user_input[i])] : i \in 1..Len(user_input)}
    \/ SelectionRejected

\* the listing rows scanned so far that became candidates
GroupRecords == {i \in 1..Len(temp_assessments) : temp_assessments[i].is_group}

\* C6: every qualifying listing row that carries the group-membership marker
\* is recorded with group-flag true, its type is not in the available
\* (non-group, selectable) set whatever its badge type and wherever it stands
\* relative to other rows of the same badge type, and it is never among the
\* assessments that are crawled.
C6_GroupExclusion ==
  /\ (last.op = "scan" /\ last.added) =>
       temp_assessments[Len(temp_assessments)].is_group
         = all_rows[last.row].users
  /\ \A i \in GroupRecords :
       temp_assessments[i].type \notin available_types(module_types)
  /\ \A i \in 1..Len(assessments_to_process) :
       ~assessments_to_process[i].is_group

\* the index of the latest week header among the first n rows, 0 if none
RECURSIVE LastWeekHeader(_)
LastWeekHeader(n) ==
  IF n = 0 THEN 0
  ELSE IF all_rows[n].kind = "header" /\ all_rows[n].week # NoWeek THEN n
  ELSE LastWeekHeader(n - 1)

\* the cursor the latest week header among the first n rows calls for
CursorAfter(n) ==
  LET h == LastWeekHeader(n)
  IN IF h = 0 THEN NoWeek
     ELSE IF MinWeek <= all_rows[h].week /\ all_rows[h].week <= MaxWeek
       THEN all_rows[h].week
     ELSE NoWeek

\* the rows among the first n that have a badge with an upper-case prefix
\* and a link to an assessment
HasShape(n) ==
  {j \in 1..n : all_rows[j].kind = "item" /\ Qualifies(MinWeek, all_rows[j])}

\* the rows among the first n that stand under a week header in 1..14
UnderWeek(n) == {j \in HasShape(n) : CursorAfter(j - 1) # NoWeek}

\* the listing row of the k-th candidate
RowOf(k) ==
  CHOOSE j \in UnderWeek(Len(all_rows)) : Cardinality(UnderWeek(j)) = k

RECURSIVE SumCounts(_, _)
SumCounts(mt, ts) ==
  IF ts = {} THEN 0
  ELSE LET t == CHOOSE x \in ts : TRUE
       IN mt[t].count + SumCounts(mt, ts \ {t})

Scanned == IF pc = "login" THEN 0 ELSE row_i - 1

\* C7: the week cursor starts as nil, a week header with N in 1..14 sets it
\* to N and a week header with a number outside 1..14 resets it to nil; rows
\* before the first valid header, or between an out-of-range week header and
\* the next valid one, add no candidate and no type count, and every
\* candidate's week label is Week_N for the latest valid header N.
C7_WeekCursor ==
  /\ pc = "login" => current_week_num = NoWeek
  /\ pc = "scan" => current_week_num = CursorAfter(Scanned)
  /\ Len(temp_assessments) = Cardinality(UnderWeek(Scanned))
  /\ SumCounts(module_types, DOMAIN module_types) = Cardinality(UnderWeek(Scanned))
  /\ \A k \in 1..Len(temp_assessments) :
       /\ CursorAfter(RowOf(k) - 1) \in MinWeek..MaxWeek
       /\ temp_assessments[k].week = WeekLabel(CursorAfter(RowOf(k) - 1))

\* a row of the right shape stands after a Week 15 header that follows a
\* Week 1 header, and one stands under a valid header: the first adds
\* nothing, the second a candidate
C7_Witness ==
  /\ pc \notin {"login", "scan"}
  /\ \E j \in 2..Len(all_rows) :
       /\ all_rows[j].kind = "header" /\ all_rows[j].week = MaxWeek + 1
       /\ \E i \in 1..(j - 1) :
            all_rows[i].kind = "header" /\ all_rows[i].week = MinWeek
       /\ \E i \in HasShape(Len(all_rows)) : i > j /\ i \notin UnderWeek(Len(all_rows))
  /\ temp_assessments = <<>>

\* C10: applying the path rewriter a second time to a file changes nothing
\* and does not write the file, for fix_css_paths of the scraper and for
\* fix_html_file of the utility.
C10_Idempotent ==
  (last.op \in {"fix_html_file", "fix_css_paths"} /\ last.n >= 2) =>
    (~last.changed /\ writes <= 1)

(***************************************************************************)
(* download_with_retry on its own.                                         *)
(***************************************************************************)
Scripts == [1..MaxAttempts -> FetchResults]

\* a call about to be made: what each requests.get will do, and the ceiling
InitFetch ==
  /\ pc = "fetch"
  /\ \E sc \in Scripts, mr \in 1..MaxAttempts :
       fetch = [script |-> sc, max_retries |-> mr, called |-> FALSE]
  /\ content = <<>>
  /\ writes = 0
  /\ last = NoOp
  /\ all_rows = <<>>
  /\ stdin = <<>>
  /\ budget = 0
  /\ events = 0
  /\ row_i = 1
  /\ current_week_num = NoWeek
  /\ module_types = <<>>
  /\ temp_assessments = <<>>
  /\ type_list = <<>>
  /\ user_input = <<>>
  /\ selected_types = {}
  /\ assessments_to_process = <<>>
  /\ assess_idx = 1
  /\ questions_to_scrape = <<>>
  /\ q_idx = 1
  /\ completed_questions = {}
  /\ disk = <<>>
  /\ current_url = None
  /\ nav_log = <<>>
  /\ log = {}
  /\ quit_count = 0

\* lines 65-82: one call, from its first attempt to its return
Download ==
  /\ pc = "fetch"
  /\ ~fetch.called
  /\ LET got == download_with_retry(fetch.script, 0, fetch.max_retries)
     IN /\ fetch' = [fetch EXCEPT !.called = TRUE]
        /\ last' = [op |-> "download", got |-> got]
        /\ log' = IF got.expired THEN log \cup {"Session expired"} ELSE log
  /\ UNCHANGED <<pc, stdin, budget, events, all_rows, row_i, current_week_num,
                 module_types, temp_assessments, type_list, user_input,
                 selected_types, assessments_to_process, assess_idx,
                 questions_to_scrape, q_idx, completed_questions, disk,
                 current_url, nav_log, quit_count, content, writes>>

NextFetch == Download

SpecFetch == InitFetch /\ [][NextFetch]_vars

\* the attempt at which a call stops: the first 200 or 401 below the
\* ceiling, or the ceiling
RECURSIVE StopsAt(_, _, _)
StopsAt(script, k, ceiling) ==
  IF k >= ceiling THEN ceiling
  ELSE IF script[k] \in {"200", "401"} THEN k
  ELSE StopsAt(script, k + 1, ceiling)

\* C11: for every sequence of fetch outcomes download_with_retry makes at
\* most max_retries attempts, returns the content at the first 200, makes no
\* attempt after a 401, waits 2^attempt seconds between every two
\* consecutive attempts, and returns None once the ceiling is reached.
C11_BoundedRetry ==
  (last.op = "download") =>
    LET got == last.got
        n == StopsAt(fetch.script, 1, fetch.max_retries)
    IN /\ got.attempts <= fetch.max_retries
       /\ got.attempts = n
       /\ got.content <=> fetch.script[n] = "200"
       /\ got.expired <=> fetch.script[n] = "401"
       /\ \A k \in 1..(got.attempts - 1) : got.sleeps[k] = Pow2(k - 1)

(***************************************************************************)
(* The completed set.                                                      *)
(***************************************************************************)
\* the iteration just made added its question's key to the completed set
KeyAdded == last.op = "question" /\ last.how \in {"fetched", "skip_disk"}

\* C12: a key is in the completed set only if index.html and render.png are
\* both in the question's folder: no key is added for a question whose HTML
\* write or screenshot capture failed.
C12_CompletedIsPersisted ==
  KeyAdded =>
    /\ last.key \in completed_questions
    /\ disk[last.folder].html.exists
    /\ disk[last.folder].shot

\* the listings under which the keys are explored: one assessment, two
\* assessments, and one badge under two weeks
KeyListings ==
  {<<HeaderRow(1), ItemRow(HW1, "/assessment/1", FALSE, FALSE)>>,
   <<HeaderRow(1), ItemRow(HW1, "/assessment/1", FALSE, FALSE),
     ItemRow(GA1, "https://us.prairielearn.com/assessment/3", TRUE, FALSE)>>,
   <<HeaderRow(1), ItemRow(HW1, "/assessment/1", FALSE, FALSE),
     HeaderRow(MinWeek + 1), ItemRow(HW1, "/assessment_instance/2", FALSE, FALSE)>>}

InitKeys == MainInit(KeyListings, {<<"all">>}, MaxEvents)

SpecKeys == InitKeys /\ [][Next]_vars

\* C13: a question is skipped on account of the completed set only if that
\* very question, the one of its own folder week/assessment/category/title,
\* was handled earlier in the run, and two distinct questions of an
\* assessment never share a key.
C13_NoKeyCollision ==
  /\ (last.op = "question" /\ last.how = "skip_completed")
       => last.folder \in DOMAIN disk
  /\ pc = "question" =>
       \A i, j \in 1..Len(questions_to_scrape) :
         LET assess == assessments_to_process[assess_idx]
             qi == questions_to_scrape[i]
             qj == questions_to_scrape[j]
         IN question_id(assess, qi) = question_id(assess, qj)
              => question_folder(assess, qi) = question_folder(assess, qj)

\* C14: when the operator enters "all", every discovered assessment whose
\* own row has no group marker is among the assessments to process, in
\* discovery order, and the group flag of a module type agrees with the
\* group flag of every assessment record of that type.
C14_AllCoversNonGroup ==
  /\ \A i \in 1..Len(temp_assessments) :
       module_types[temp_assessments[i].type].is_group
         = temp_assessments[i].is_group
  /\ (pc \notin {"login", "scan"} /\ IsAll(Normalize(stdin))
        /\ "FATAL ERROR" \notin log)
       => assessments_to_process
            = SelectSeq(temp_assessments, LAMBDA a : ~a.is_group)

=============================================================================
